---- MODULE Spec2Model ----
(***************************************************************************)
(* free-disk: delete the files with the oldest modification date under a   *)
(* root directory until --free-bytes are available (free_disk/__init__.py).*)
(* _main is modelled as a sequential process whose steps are its calls to  *)
(* the operating system (disk_usage, walk, stat, remove, exit); what the   *)
(* operating system answers is the environment's choice: the free bytes of  *)
(* each disk_usage, the metadata of each stat, the failure of a stat or a  *)
(* remove.                                                                 *)
(***************************************************************************)
EXTENDS Integers, Sequences, FiniteSets, TLC

\* ---------------------------------------------------------------- bounds
NumFiles == 2       \* files under ROOT_DIR
MaxSize == 2        \* st_size ranges over 0..MaxSize
MaxMtime == 2       \* st_mtime ranges over 1..MaxMtime
MaxFree == 2        \* free bytes reported by the filesystem: 0..MaxFree

Files == 1..NumFiles
Sizes == 0..MaxSize
Mtimes == 1..MaxMtime
FreeValues == 0..MaxFree
Targets == 1..MaxFree

\* ----------------------------------------------------------------- paths
\* A path is a sequence of characters; file i of the directory has PathOf(i).
Chars == <<"a", "b">>

PathOf(i) == <<Chars[2 - (i % 2)], Chars[((i \div 2) % 2) + 1]>>

\* --delete-re values: a regular expression is a sequence of tokens, each a
\* literal character, ".*" or "$".
Patterns ==
    { <<".*">>,              \* the default: every path
      <<"a">>,               \* paths that start with a
      <<".*", "b", "$">>,    \* paths that end in b
      <<"b", "$">> }         \* only the path "b": no file of the directory

Suffix(s, k) == SubSeq(s, k + 1, Len(s))

\* A variant of the matcher that lets the pattern start anywhere in the path
\* (re.search instead of re.match).
RECURSIVE MatchHere(_, _)
MatchHere(pat, s) ==
    IF pat = <<>> THEN TRUE
    ELSE IF Head(pat) = "$" THEN s = <<>> /\ MatchHere(Tail(pat), s)
    ELSE IF Head(pat) = ".*"
         THEN \E k \in 0..Len(s) : MatchHere(Tail(pat), Suffix(s, k))
    ELSE s # <<>> /\ Head(s) = Head(pat) /\ MatchHere(Tail(pat), Tail(s))

MatchAnywhere(pat, s) == \E k \in 0..Len(s) : MatchHere(pat, Suffix(s, k))

\* delete_re.match(p): the pattern matches at the start of the path and need
\* not consume all of it.
Match(pat, s) == MatchHere(pat, s)

\* ------------------------------------------------------------------ sort
\* list.sort(key=st_mtime): stable, ascending. Insertion of x after every
\* element whose key is <= x's key keeps equal keys in their input order.
RECURSIVE InsertByMtime(_, _)
InsertByMtime(x, s) ==
    IF s = <<>> THEN <<x>>
    ELSE IF Head(s).st_mtime <= x.st_mtime
         THEN <<Head(s)>> \o InsertByMtime(x, Tail(s))
         ELSE <<x>> \o s

RECURSIVE SortedPrefix(_, _)
SortedPrefix(s, n) ==
    IF n = 0 THEN <<>> ELSE InsertByMtime(s[n], SortedPrefix(s, n - 1))

\* The list left in scan order (the sort forgotten).
Unsorted(s) == s

\* The sort made newest first (reverse=True).
RECURSIVE Reversed(_)
Reversed(s) == IF s = <<>> THEN <<>> ELSE Append(Reversed(Tail(s)), Head(s))

SortNewestFirst(s) == Reversed(SortedPrefix(s, Len(s)))

SortByMtime(s) == SortedPrefix(s, Len(s))

\* os.walk lists the files in directory order; the files are numbered in
\* that order.
RECURSIVE WalkOrder(_)
WalkOrder(S) ==
    IF S = {} THEN <<>>
    ELSE LET f == CHOOSE x \in S : \A y \in S : x <= y
         IN <<f>> \o WalkOrder(S \ {f})

\* ------------------------------------------------------ _data_size_to_bytes
DigitChars == <<"0", "1", "2", "3", "4", "5", "6", "7", "8", "9">>

Letters ==
    { "A", "B", "C", "D", "E", "F", "G", "H", "I", "J", "K", "L", "M", "N", "O",
      "P", "Q", "R", "S", "T", "U", "V", "W", "X", "Y", "Z", "a", "b", "c", "d",
      "e", "f", "g", "h", "i", "j", "k", "l", "m", "n", "o", "p", "q", "r", "s",
      "t", "u", "v", "w", "x", "y", "z" }

IsDigit(c) == \E d \in 1..10 : DigitChars[d] = c

DigitValue(c) == (CHOOSE d \in 1..10 : DigitChars[d] = c) - 1

\* _DATA_SIZE_UNIT_BYTE_CONVERSION_FACTOR, as <<symbol, base, exponent>>: the
\* factor is base^exponent, computed when a size with that unit is converted.
UnitTable ==
    { << <<"B">>, 10, 0 >>,
      << <<"k", "B">>, 10, 3 >>,
      << <<"K", "B">>, 10, 3 >>,
      << <<"M", "B">>, 10, 6 >>,
      << <<"G", "B">>, 10, 9 >>,
      << <<"T", "B">>, 10, 12 >>,
      << <<"K", "i", "B">>, 2, 10 >>,
      << <<"M", "i", "B">>, 2, 20 >>,
      << <<"G", "i", "B">>, 2, 30 >>,
      << <<"T", "i", "B">>, 2, 40 >> }

\* The character classes [\d\.], \s and [A-Za-z] of the pattern.
NumberChars == { DigitChars[d] : d \in 1..10 } \cup {"."}

Spaces == {" "}

\* The length of the longest prefix of s whose characters are in class.
RunLength(s, class) ==
    CHOOSE n \in 0..Len(s) :
        /\ \A i \in 1..n : s[i] \in class
        /\ n = Len(s) \/ s[n + 1] \notin class

\* re.match(r"^([\d\.]+)\s*([A-Za-z]+)?$", s): group 1 and group 2
NumberText(s) == SubSeq(s, 1, RunLength(s, NumberChars))

AfterNumber(s) == Suffix(s, RunLength(s, NumberChars))

UnitText(s) == Suffix(AfterNumber(s), RunLength(AfterNumber(s), Spaces))

RegexMatches(s) ==
    /\ NumberText(s) # <<>>
    /\ RunLength(UnitText(s), Letters) = Len(UnitText(s))

KnownUnit(u) == \E e \in UnitTable : e[1] = u

Factor(u) ==
    IF u = <<>> THEN 1
    ELSE LET e == CHOOSE x \in UnitTable : x[1] = u IN e[2] ^ e[3]

\* float(text): text has digits and at most one dot
IsFloat(t) ==
    /\ \E i \in 1..Len(t) : IsDigit(t[i])
    /\ Cardinality({ i \in 1..Len(t) : t[i] = "." }) <= 1

\* The digits of t read as one integer, and the number of digits after the
\* dot: float(t) = AllDigits(t) / 10^Decimals(t).
RECURSIVE AllDigits(_)
AllDigits(t) ==
    IF t = <<>> THEN 0
    ELSE LET init == SubSeq(t, 1, Len(t) - 1)
             last == t[Len(t)]
         IN IF last = "." THEN AllDigits(init)
            ELSE 10 * AllDigits(init) + DigitValue(last)

Decimals(t) ==
    IF \E i \in 1..Len(t) : t[i] = "."
    THEN Len(t) - (CHOOSE i \in 1..Len(t) : t[i] = ".")
    ELSE 0

\* round(x / y, 0): to the nearest integer, a tie to the even one
RoundHalfEven(x, y) ==
    LET q == x \div y
        r == x % y
    IN IF 2 * r > y \/ (2 * r = y /\ q % 2 = 1) THEN q + 1 ELSE q

\* The ValueError cases of _data_size_to_bytes and of the float() it calls.
ParseFails(s) ==
    \/ ~RegexMatches(s)
    \/ UnitText(s) # <<>> /\ ~KnownUnit(UnitText(s))
    \/ ~IsFloat(NumberText(s))

data_size_to_bytes(s) ==
    RoundHalfEven(AllDigits(NumberText(s)) * Factor(UnitText(s)),
                  10 ^ Decimals(NumberText(s)))

\* The text of a non-negative integer.
RECURSIVE Decimal(_)
Decimal(n) ==
    IF n < 10 THEN <<DigitChars[n + 1]>>
    ELSE Append(Decimal(n \div 10), DigitChars[(n % 10) + 1])

\* --free-bytes texts: sizes the parser accepts and texts it rejects.
SizeArgs ==
    { <<"1">>, <<"1", "B">>, <<"1", ".", "5">>, <<"0", ".", "5">>,
      <<>>, <<"B">>, <<"-", "1">>, <<"1", "X">>, <<"1", " ", "k", "b">>,
      <<"1", ".", "2", ".", "3">>, <<".">>, <<"1", "B", "2">> }

\* ----------------------------------------------------------------- state
VARIABLES
    free_bytes,             \* args.free_bytes
    track_bytes_deleted,    \* args.track_bytes_deleted
    delete_re,              \* args.delete_re
    size_arg,               \* the text given for --free-bytes
    disk,                   \* the files present under ROOT_DIR
    disk_usage_free,        \* disk_usage.free, measured once at start
    space_to_free,
    space_freed,
    file_paths,             \* the walk's result, as files in walk order
    stat_pos,               \* position of the stat comprehension in file_paths
    stat_paths,             \* [st_mtime, st_size, file] records
    loop_pos,               \* position of the for loop in stat_paths
    removed_files_counter,
    last_mtime,             \* <<>> is None, <<m>> a timestamp
    log,                    \* records emitted at level INFO or above
    pc,
    exit_code,              \* -1 while the process runs
    \* history
    removed,                \* files removed by os.remove, in order
    last_query,             \* <<>> or <<free>> of the latest live disk_usage
    preflight_query,        \* <<>> or <<free>> the pre-flight check saw
    loop_end,               \* "none", "preflight", "break" or "exhausted"
    fault                   \* <<>> or <<[op, file, removed]>> of the OSError

vars == <<free_bytes, track_bytes_deleted, delete_re, size_arg, disk,
          disk_usage_free, space_to_free, space_freed, file_paths, stat_pos,
          stat_paths, loop_pos, removed_files_counter, last_mtime, log, pc,
          exit_code, removed, last_query, preflight_query, loop_end, fault>>

args == <<free_bytes, track_bytes_deleted, delete_re, size_arg>>
filesystem == <<disk>>
scan == <<file_paths, stat_pos, stat_paths>>
counters == <<space_freed, loop_pos, removed_files_counter, last_mtime>>

Init ==
    /\ free_bytes \in Targets
    /\ track_bytes_deleted \in BOOLEAN
    /\ delete_re \in Patterns
    /\ size_arg = Decimal(free_bytes)
    /\ disk = Files
    /\ disk_usage_free = 0
    /\ space_to_free = 0
    /\ space_freed = 0
    /\ file_paths = <<>>
    /\ stat_pos = 1
    /\ stat_paths = <<>>
    /\ loop_pos = 1
    /\ removed_files_counter = 0
    /\ last_mtime = <<>>
    /\ log = <<>>
    /\ pc = "disk_usage"
    /\ exit_code = -1
    /\ removed = <<>>
    /\ last_query = <<>>
    /\ preflight_query = <<>>
    /\ loop_end = "none"
    /\ fault = <<>>

\* The state before argparse has converted --free-bytes.
InitArgs ==
    /\ free_bytes = 0
    /\ track_bytes_deleted \in BOOLEAN
    /\ delete_re \in Patterns
    /\ size_arg \in SizeArgs
    /\ disk = Files
    /\ disk_usage_free = 0
    /\ space_to_free = 0
    /\ space_freed = 0
    /\ file_paths = <<>>
    /\ stat_pos = 1
    /\ stat_paths = <<>>
    /\ loop_pos = 1
    /\ removed_files_counter = 0
    /\ last_mtime = <<>>
    /\ log = <<>>
    /\ pc = "parse_args"
    /\ exit_code = -1
    /\ removed = <<>>
    /\ last_query = <<>>
    /\ preflight_query = <<>>
    /\ loop_end = "none"
    /\ fault = <<>>

\* ------------------------------------------------------ sufficient_free_space
\* The tracked test with < for <=.
sufficient_strict_tracked(track, free) ==
    IF track THEN space_to_free - space_freed < 0 ELSE free >= free_bytes

\* The live test with > for >=.
sufficient_strict_live(track, free) ==
    IF track THEN space_to_free - space_freed <= 0 ELSE free > free_bytes

\* The mode argument ignored: the live test in either mode.
sufficient_always_live(track, free) == free >= free_bytes

\* sufficient_free_space(track_bytes_deleted): free is what the live
\* shutil.disk_usage(...).free returns; it is read only when track is FALSE.
sufficient_free_space(track, free) ==
    IF track THEN space_to_free - space_freed <= 0 ELSE free >= free_bytes

\* The live query is made only on the branch that is not tracked.
Queried(track, free) == IF track THEN last_query ELSE <<free>>

\* An uncaught exception ends the interpreter with status 1.
Crash(op, f) ==
    /\ pc' = "crashed"
    /\ exit_code' = 1
    /\ fault' = <<[op |-> op, file |-> f, removed |-> removed]>>

\* --------------------------------------------------------------- actions
ParseRest ==
    UNCHANGED <<track_bytes_deleted, delete_re, size_arg, filesystem,
                disk_usage_free, space_to_free, scan, counters, log, removed,
                last_query, preflight_query, loop_end>>

\* args = argparser.parse_args(): --free-bytes converts
ParseOk ==
    /\ pc = "parse_args"
    /\ ~ParseFails(size_arg)
    /\ free_bytes' = data_size_to_bytes(size_arg)
    /\ pc' = "disk_usage"
    /\ UNCHANGED <<exit_code, fault>>
    /\ ParseRest

\* A ValueError of the conversion swallowed: the target defaults to 0.
ParseFailIgnored ==
    /\ pc = "parse_args"
    /\ ParseFails(size_arg)
    /\ free_bytes' = 0
    /\ pc' = "disk_usage"
    /\ UNCHANGED <<exit_code, fault>>
    /\ ParseRest

\* The conversion raises ValueError: argparse reports it and exits with 2
ParseFail ==
    /\ pc = "parse_args"
    /\ ParseFails(size_arg)
    /\ pc' = "crashed"
    /\ exit_code' = 2
    /\ fault' = <<[op |-> "parse_args", file |-> 0, removed |-> removed]>>
    /\ UNCHANGED free_bytes
    /\ ParseRest

\* disk_usage = shutil.disk_usage(root); space_to_free; space_freed = 0
DiskUsage ==
    /\ pc = "disk_usage"
    /\ \E free \in FreeValues :
        /\ disk_usage_free' = free
        /\ space_to_free' = free_bytes - free
    /\ space_freed' = 0
    /\ pc' = "preflight"
    /\ UNCHANGED <<args, filesystem, scan, loop_pos, removed_files_counter,
                   last_mtime, log, exit_code, removed, last_query,
                   preflight_query, loop_end, fault>>

\* The pre-flight test without its return.
PreflightNoReturn ==
    /\ pc = "preflight"
    /\ \E free \in FreeValues :
        /\ last_query' = <<free>>
        /\ preflight_query' = <<free>>
    /\ pc' = "walk"
    /\ UNCHANGED <<args, filesystem, disk_usage_free, space_to_free, scan,
                   counters, log, exit_code, removed, loop_end, fault>>

\* The pre-flight return made through the report: it logs the warning.
PreflightWarns ==
    /\ pc = "preflight"
    /\ \E free \in FreeValues :
        /\ last_query' = <<free>>
        /\ preflight_query' = <<free>>
        /\ IF sufficient_free_space(FALSE, free)
           THEN /\ pc' = "done"
                /\ exit_code' = 0
                /\ loop_end' = "preflight"
                /\ log' = Append(log, [level |-> "WARNING:No files to remove"])
           ELSE /\ pc' = "walk"
                /\ UNCHANGED <<exit_code, loop_end, log>>
    /\ UNCHANGED <<args, filesystem, disk_usage_free, space_to_free, scan,
                   counters, removed, fault>>

\* if sufficient_free_space(): return     (always the live test)
Preflight ==
    /\ pc = "preflight"
    /\ \E free \in FreeValues :
        /\ last_query' = <<free>>
        /\ preflight_query' = <<free>>
        /\ IF sufficient_free_space(FALSE, free)
           THEN /\ pc' = "done"
                /\ exit_code' = 0
                /\ loop_end' = "preflight"
           ELSE /\ pc' = "walk"
                /\ UNCHANGED <<exit_code, loop_end>>
    /\ UNCHANGED <<args, filesystem, disk_usage_free, space_to_free, scan,
                   counters, log, removed, fault>>

\* file_paths = [join(dirpath, filename) for ... in os.walk(root) ...]
Walk ==
    /\ pc = "walk"
    /\ file_paths' = WalkOrder(disk)
    /\ stat_pos' = 1
    /\ stat_paths' = <<>>
    /\ pc' = "stat"
    /\ UNCHANGED <<args, filesystem, disk_usage_free, space_to_free, counters,
                   log, exit_code, removed, last_query, preflight_query,
                   loop_end, fault>>

StatRest ==
    UNCHANGED <<args, filesystem, disk_usage_free, space_to_free, file_paths,
                counters, log, removed, last_query, preflight_query, loop_end>>

\* ... for p in file_paths if delete_re.match(p): p does not match
StatFiltered ==
    /\ pc = "stat"
    /\ stat_pos <= Len(file_paths)
    /\ ~Match(delete_re, PathOf(file_paths[stat_pos]))
    /\ stat_pos' = stat_pos + 1
    /\ UNCHANGED <<stat_paths, pc, exit_code, fault>>
    /\ StatRest

\* (os.stat(p), p): the metadata of a matching path is captured
StatOk ==
    /\ pc = "stat"
    /\ stat_pos <= Len(file_paths)
    /\ Match(delete_re, PathOf(file_paths[stat_pos]))
    /\ \E mtime \in Mtimes, size \in Sizes :
        stat_paths' = Append(stat_paths,
            [st_mtime |-> mtime, st_size |-> size, file |-> file_paths[stat_pos]])
    /\ stat_pos' = stat_pos + 1
    /\ UNCHANGED <<pc, exit_code, fault>>
    /\ StatRest

\* A failed os.stat that the scan steps over.
StatFailSkipped ==
    /\ pc = "stat"
    /\ stat_pos <= Len(file_paths)
    /\ Match(delete_re, PathOf(file_paths[stat_pos]))
    /\ stat_pos' = stat_pos + 1
    /\ fault' = <<[op |-> "stat", file |-> file_paths[stat_pos], removed |-> removed]>>
    /\ UNCHANGED <<stat_paths, pc, exit_code>>
    /\ StatRest

\* os.stat(p) raises OSError: nothing catches it
StatFail ==
    /\ pc = "stat"
    /\ stat_pos <= Len(file_paths)
    /\ Match(delete_re, PathOf(file_paths[stat_pos]))
    /\ Crash("stat", file_paths[stat_pos])
    /\ UNCHANGED <<stat_paths, stat_pos>>
    /\ StatRest

\* stat_paths.sort(key=st_mtime); removed_files_counter = 0; last_mtime = None
SortCandidates ==
    /\ pc = "stat"
    /\ stat_pos > Len(file_paths)
    /\ stat_paths' = SortByMtime(stat_paths)
    /\ removed_files_counter' = 0
    /\ last_mtime' = <<>>
    /\ loop_pos' = 1
    /\ pc' = "loop"
    /\ UNCHANGED <<args, filesystem, disk_usage_free, space_to_free,
                   space_freed, file_paths, stat_pos, log, exit_code, removed,
                   last_query, preflight_query, loop_end, fault>>

LoopRest ==
    UNCHANGED <<args, filesystem, disk_usage_free, space_to_free, scan, log,
                preflight_query>>

\* The loop run out of candidates starts a new scan.
LoopExhaustedRescans ==
    /\ pc = "loop"
    /\ loop_pos > Len(stat_paths)
    /\ pc' = "walk"
    /\ UNCHANGED <<counters, exit_code, removed, last_query, fault, loop_end>>
    /\ LoopRest

\* for file_stat, file_path in stat_paths: no candidate is left
LoopExhausted ==
    /\ pc = "loop"
    /\ loop_pos > Len(stat_paths)
    /\ pc' = "report"
    /\ loop_end' = "exhausted"
    /\ UNCHANGED <<counters, exit_code, removed, last_query, fault>>
    /\ LoopRest

\* The loop's test negated: it breaks while space is missing.
LoopCheckNegated ==
    /\ pc = "loop"
    /\ loop_pos <= Len(stat_paths)
    /\ \E free \in FreeValues :
        /\ last_query' = Queried(track_bytes_deleted, free)
        /\ IF ~sufficient_free_space(track_bytes_deleted, free)
           THEN pc' = "report" /\ loop_end' = "break"
           ELSE pc' = "remove" /\ UNCHANGED loop_end
    /\ UNCHANGED <<counters, exit_code, removed, fault>>
    /\ LoopRest

\* if sufficient_free_space(args.track_bytes_deleted): break
LoopCheck ==
    /\ pc = "loop"
    /\ loop_pos <= Len(stat_paths)
    /\ \E free \in FreeValues :
        /\ last_query' = Queried(track_bytes_deleted, free)
        /\ IF sufficient_free_space(track_bytes_deleted, free)
           THEN pc' = "report" /\ loop_end' = "break"
           ELSE pc' = "remove" /\ UNCHANGED loop_end
    /\ UNCHANGED <<counters, exit_code, removed, fault>>
    /\ LoopRest

\* The removal without the assignment to last_mtime.
RemoveOkKeepsMtime ==
    /\ pc = "remove"
    /\ LET c == stat_paths[loop_pos] IN
        /\ disk' = disk \ {c.file}
        /\ space_freed' = space_freed + c.st_size
        /\ removed' = Append(removed, c.file)
    /\ removed_files_counter' = removed_files_counter + 1
    /\ loop_pos' = loop_pos + 1
    /\ pc' = "loop"
    /\ UNCHANGED <<args, disk_usage_free, space_to_free, last_mtime,
                   scan, log, exit_code, last_query, preflight_query,
                   loop_end, fault>>

\* os.remove(file_path); space_freed += st_size; counter += 1; last_mtime
RemoveOk ==
    /\ pc = "remove"
    /\ LET c == stat_paths[loop_pos] IN
        /\ disk' = disk \ {c.file}
        /\ space_freed' = space_freed + c.st_size
        /\ last_mtime' = <<c.st_mtime>>
        /\ removed' = Append(removed, c.file)
    /\ removed_files_counter' = removed_files_counter + 1
    /\ loop_pos' = loop_pos + 1
    /\ pc' = "loop"
    /\ UNCHANGED <<args, disk_usage_free, space_to_free,
                   scan, log, exit_code, last_query, preflight_query,
                   loop_end, fault>>

\* A failed os.remove that the loop steps over.
RemoveFailSkipped ==
    /\ pc = "remove"
    /\ fault' = <<[op |-> "remove", file |-> stat_paths[loop_pos].file,
                   removed |-> removed]>>
    /\ loop_pos' = loop_pos + 1
    /\ pc' = "loop"
    /\ UNCHANGED <<space_freed, removed_files_counter, last_mtime, exit_code,
                   removed, last_query, loop_end, filesystem>>
    /\ LoopRest

\* os.remove(file_path) raises OSError: nothing catches it
RemoveFail ==
    /\ pc = "remove"
    /\ Crash("remove", stat_paths[loop_pos].file)
    /\ UNCHANGED <<counters, removed, last_query, loop_end, filesystem>>
    /\ LoopRest

WARNING == "WARNING:No files to remove"
INFO == "INFO:Removed"

ReportRest ==
    UNCHANGED <<args, filesystem, disk_usage_free, space_to_free, scan,
                counters, removed, preflight_query, loop_end>>

\* The summary chosen by the bytes deleted instead of the files removed.
ReportByBytes ==
    /\ pc = "report"
    /\ IF space_freed = 0
       THEN /\ log' = Append(log, [level |-> WARNING])
            /\ pc' = "exit"
            /\ UNCHANGED <<last_query, exit_code, fault>>
       ELSE /\ \E free \in FreeValues :
                /\ last_query' = <<free>>
                /\ log' = Append(log,
                     [level |-> INFO, count |-> removed_files_counter,
                      mtime |-> last_mtime, deleted |-> space_freed,
                      fs_freed |-> free - disk_usage_free])
            /\ pc' = "exit"
            /\ UNCHANGED <<exit_code, fault>>
    /\ ReportRest

\* if removed_files_counter == 0: logging.warning(...) else: logging.info(...)
Report ==
    /\ pc = "report"
    /\ IF removed_files_counter = 0
       THEN /\ log' = Append(log, [level |-> WARNING])
            /\ pc' = "exit"
            /\ UNCHANGED <<last_query, exit_code, fault>>
       ELSE IF last_mtime = <<>>
       THEN \* assert last_mtime is not None
            /\ Crash("assert", 0)
            /\ UNCHANGED <<log, last_query>>
       ELSE /\ \E free \in FreeValues :
                /\ last_query' = <<free>>
                /\ log' = Append(log,
                     [level |-> INFO, count |-> removed_files_counter,
                      mtime |-> last_mtime, deleted |-> space_freed,
                      fs_freed |-> free - disk_usage_free])
            /\ pc' = "exit"
            /\ UNCHANGED <<exit_code, fault>>
    /\ ReportRest

ExitRest ==
    UNCHANGED <<args, filesystem, disk_usage_free, space_to_free, scan,
                counters, log, removed, preflight_query, loop_end, fault>>

\* sys.exit(sufficient_free_space(...)): the status not negated.
ExitNotNegated ==
    /\ pc = "exit"
    /\ \E free \in FreeValues :
        /\ last_query' = Queried(track_bytes_deleted, free)
        /\ exit_code' = IF sufficient_free_space(track_bytes_deleted, free) THEN 1 ELSE 0
    /\ pc' = "done"
    /\ ExitRest

\* sys.exit(not sufficient_free_space()): the mode argument left out.
ExitLive ==
    /\ pc = "exit"
    /\ \E free \in FreeValues :
        /\ last_query' = <<free>>
        /\ exit_code' = IF sufficient_free_space(FALSE, free) THEN 0 ELSE 1
    /\ pc' = "done"
    /\ ExitRest

\* sys.exit(not sufficient_free_space(args.track_bytes_deleted))
Exit ==
    /\ pc = "exit"
    /\ \E free \in FreeValues :
        /\ last_query' = Queried(track_bytes_deleted, free)
        /\ exit_code' = IF sufficient_free_space(track_bytes_deleted, free) THEN 0 ELSE 1
    /\ pc' = "done"
    /\ ExitRest

Next ==
    \/ DiskUsage
    \/ Preflight
    \/ Walk
    \/ StatFiltered
    \/ StatOk
    \/ StatFail
    \/ SortCandidates
    \/ LoopExhausted
    \/ LoopCheck
    \/ RemoveOk
    \/ RemoveFail
    \/ Report
    \/ Exit

Spec == Init /\ [][Next]_vars

\* Another process creates a file under ROOT_DIR after the walk has listed
\* the directory.
NewFile == NumFiles + 1

Appear ==
    /\ pc \in {"stat", "loop", "remove"}
    /\ NewFile \notin disk
    /\ disk' = disk \cup {NewFile}
    /\ UNCHANGED <<args, disk_usage_free, space_to_free, scan, counters, log,
                   pc, exit_code, removed, last_query, preflight_query,
                   loop_end, fault>>

NextOrAppear == Next \/ Appear

\* _main runs on one thread and every call it makes returns: a step of the
\* program that can be taken is taken.
FairSpec == Init /\ [][NextOrAppear]_vars /\ WF_vars(Next)

NextFromArgs == ParseOk \/ ParseFail \/ Next

\* _main from the argument vector on.
ArgSpec == InitArgs /\ [][NextFromArgs]_vars

TypeOK ==
    /\ pc \in {"parse_args", "disk_usage", "preflight", "walk", "stat", "loop", "remove",
               "report", "exit", "done", "crashed"}
    /\ exit_code \in {-1, 0, 1, 2}
    /\ loop_end \in {"none", "preflight", "break", "exhausted"}
    /\ space_freed \in Nat
    /\ removed_files_counter \in Nat

\* ---------------------------------------------------------------- claims
Range(s) == { s[i] : i \in 1..Len(s) }

\* What each --delete-re value of Patterns accepts, stated on the path itself.
Accepts(pat, s) ==
    CASE pat = <<".*">> -> TRUE
      [] pat = <<"a">> -> s[1] = "a"
      [] pat = <<".*", "b", "$">> -> s[Len(s)] = "b"
      [] pat = <<"b", "$">> -> s = <<"b">>

Matching == { f \in Files : Accepts(delete_re, PathOf(f)) }

\* The candidates of the scan, oldest first, as files.
Candidates == [i \in 1..Len(stat_paths) |-> stat_paths[i].file]

RECURSIVE SizeOfFirst(_)
SizeOfFirst(k) == IF k = 0 THEN 0 ELSE SizeOfFirst(k - 1) + stat_paths[k].st_size

\* The mtime and the size the scan captured for a file.
ScanMtime(f) == (CHOOSE c \in Range(stat_paths) : c.file = f).st_mtime

ScanSize(f) == (CHOOSE c \in Range(stat_paths) : c.file = f).st_size

RECURSIVE SizeOf(_)
SizeOf(s) == IF s = <<>> THEN 0 ELSE ScanSize(Head(s)) + SizeOf(Tail(s))

OldestFirst(s) == \A i, j \in 1..Len(s) : i < j => s[i].st_mtime <= s[j].st_mtime

PositionIn(s, x) == CHOOSE i \in 1..Len(s) : s[i] = x

LoopEnded == loop_end \in {"break", "exhausted"}

\* The sufficiency test of the configured mode on the state the run ended in.
FinalCheck ==
    IF track_bytes_deleted
    THEN (free_bytes - disk_usage_free) - SizeOf(removed) <= 0
    ELSE last_query # <<>> /\ last_query[1] >= free_bytes

\* C1: in either tracking mode, when the pre-flight live query reports
\* free >= target, the run ends there: no file is deleted and the exit code
\* is 0.
C1_PreflightSufficientIsNoOp ==
    (preflight_query # <<>> /\ preflight_query[1] >= free_bytes)
        => /\ pc = "done"
           /\ exit_code = 0
           /\ removed = <<>>
           /\ disk = Files
           /\ space_freed = 0

\* The pre-flight test passes in tracked mode although the deficit measured
\* at start is positive.
C1_Witness ==
    /\ pc = "done"
    /\ track_bytes_deleted
    /\ preflight_query # <<>> /\ preflight_query[1] >= free_bytes
    /\ space_to_free > 0

\* C2: files are removed in non-decreasing order of their scan-time mtime.
C2_RemovedOldestFirst ==
    \A i, j \in 1..Len(removed) :
        i < j => ScanMtime(removed[i]) <= ScanMtime(removed[j])

\* Two files were removed in the opposite order of the walk that found them.
C2_Witness ==
    /\ Len(removed) >= 2
    /\ ScanMtime(removed[1]) < ScanMtime(removed[2])
    /\ PositionIn(file_paths, removed[1]) > PositionIn(file_paths, removed[2])

\* The length of the shortest prefix of the candidates whose sizes sum to at
\* least the deficit, or the number of candidates when no prefix does.
ShortestPrefix(deficit) ==
    CHOOSE k \in 0..Len(stat_paths) :
        /\ SizeOfFirst(k) >= deficit \/ k = Len(stat_paths)
        /\ \A j \in 0..(k - 1) : SizeOfFirst(j) < deficit

\* C3: in tracked mode, once the pre-flight test has failed and the loop has
\* ended, the removed files are exactly the shortest oldest-first prefix of the
\* candidates whose sizes sum to at least target - free at start (all of them
\* if no prefix does), and the counters agree with that prefix.
C3_TrackedStopsAtShortestPrefix ==
    (track_bytes_deleted /\ LoopEnded) =>
        LET k == ShortestPrefix(free_bytes - disk_usage_free) IN
        /\ OldestFirst(stat_paths)
        /\ removed = SubSeq(Candidates, 1, k)
        /\ removed_files_counter = k
        /\ space_freed = SizeOfFirst(k)

\* Two candidates, deficit 1: the older one, of 2 bytes, is removed, the
\* other stays, and the filesystem's last report is still below the target.
C3_Witness ==
    /\ track_bytes_deleted
    /\ pc = "done"
    /\ loop_end = "break"
    /\ Len(stat_paths) = 2
    /\ Len(removed) = 1
    /\ space_to_free = 1
    /\ space_freed = 2
    /\ stat_paths[2].file \in disk
    /\ last_query[1] < free_bytes

\* C4: in live mode a deletion follows only a live query that reported
\* free < target, the loop breaks exactly on a query that reported
\* free >= target, and after the break the candidate under consideration and
\* all later ones stay; the counters play no part.
C4_LiveQueryDecides ==
    ~track_bytes_deleted =>
        /\ pc = "remove" => last_query[1] < free_bytes
        /\ (pc = "report" /\ loop_end = "break") => last_query[1] >= free_bytes
        /\ loop_end = "break" =>
            /\ pc \in {"report", "exit", "done"}
            /\ loop_pos <= Len(stat_paths)
            /\ removed = SubSeq(Candidates, 1, loop_pos - 1)
            /\ \A i \in loop_pos..Len(stat_paths) : stat_paths[i].file \in disk

\* The loop breaks on a live query although the bytes deleted so far are
\* fewer than the deficit computed at start.
C4_Witness ==
    /\ ~track_bytes_deleted
    /\ pc = "report"
    /\ loop_end = "break"
    /\ removed # <<>>
    /\ space_to_free - space_freed > 0

\* C5 as stated: every run that completes exits 0 exactly when the sufficiency
\* test of the configured mode passes at the end of the run.
C5_ExitCodeIsConfiguredCheck ==
    pc = "done" => (exit_code = 0 <=> FinalCheck)

\* C5 as amended: a run that returns at the pre-flight test exits 0, the live
\* test having passed; every other run that completes exits 0 exactly when the
\* sufficiency test of the configured mode passes at the end, and 1 otherwise.
C5_ExitCodeAmended ==
    pc = "done" =>
        IF loop_end = "preflight"
        THEN exit_code = 0 /\ preflight_query[1] >= free_bytes
        ELSE /\ LoopEnded
             /\ exit_code \in {0, 1}
             /\ exit_code = 0 <=> FinalCheck

\* A live-mode run whose loop broke on a sufficient query exits 1 on the final
\* query.
C5_Witness ==
    /\ pc = "done"
    /\ ~track_bytes_deleted
    /\ loop_end = "break"
    /\ exit_code = 1

\* C6: a file whose path the filter does not accept stays on disk, is never
\* among the candidates or the removed files, and the counters count accepted
\* files only.
C6_FilterExcludes ==
    /\ \A f \in Files \ Matching :
        /\ f \in disk
        /\ f \notin Range(removed)
        /\ f \notin Range(Candidates)
    /\ removed_files_counter = Cardinality(Range(removed) \cap Matching)
    /\ space_freed = SizeOf(SelectSeq(removed, LAMBDA f : f \in Matching))

\* Every accepted file was removed, the target was not met, and the files the
\* filter rejects are still there.
C6_Witness ==
    /\ pc = "done"
    /\ exit_code = 1
    /\ removed # <<>>
    /\ Matching # Files
    /\ disk = Files \ Matching

\* C7: after a failed remove the run has crashed with exit status 1, the file
\* that failed was not removed, nothing was removed after the failure, and the
\* files removed before it are gone.
C7_RemoveFailureIsFatal ==
    (fault # <<>> /\ fault[1].op = "remove") =>
        /\ pc = "crashed"
        /\ exit_code = 1
        /\ removed = fault[1].removed
        /\ fault[1].file \notin Range(removed)
        /\ \A f \in Range(removed) : f \notin disk
        /\ log = <<>>

\* A remove fails after an earlier one succeeded.
C7_Witness ==
    /\ fault # <<>> /\ fault[1].op = "remove"
    /\ removed # <<>>
    /\ fault[1].file \in disk

\* C8: after a failed stat of an accepted file the run has crashed with exit
\* status 1 and no file was removed; and whenever a file is removed, every
\* path of the walk has been visited and every accepted one has its metadata.
C8_StatFailureIsFatal ==
    /\ (fault # <<>> /\ fault[1].op = "stat") =>
        /\ pc = "crashed"
        /\ exit_code = 1
        /\ removed = <<>>
        /\ disk = Files
    /\ (removed # <<>> \/ pc = "remove") =>
        /\ stat_pos = Len(file_paths) + 1
        /\ Range(Candidates) = Range(file_paths) \cap Matching

\* The stat of an accepted file fails after another file's stat succeeded.
C8_Witness ==
    /\ fault # <<>> /\ fault[1].op = "stat"
    /\ fault[1].file \in Matching
    /\ stat_paths # <<>>

\* C9 as stated: a run that completes and exits nonzero has removed every
\* candidate.
C9_NonzeroExitMeansExhausted ==
    (pc = "done" /\ exit_code # 0) => removed = Candidates

\* C9 as amended: a run that completes and exits nonzero has removed every
\* candidate, unless it runs in live mode, left the loop on a live query that
\* reported free >= target, and the final live query reported free < target.
C9_NonzeroExitAmended ==
    (pc = "done" /\ exit_code # 0) =>
        \/ /\ loop_end = "exhausted"
           /\ removed = Candidates
           /\ disk \cap Matching = {}
        \/ /\ ~track_bytes_deleted
           /\ loop_end = "break"
           /\ last_query[1] < free_bytes

\* A tracked run removed two candidates or more and still exits 1.
C9_Witness ==
    /\ pc = "done"
    /\ exit_code = 1
    /\ track_bytes_deleted
    /\ Len(removed) >= 2

\* C10: once the loop has ended and the report is made, the log holds the
\* warning alone when no file was removed, and the summary alone, with no
\* warning, when one was.
C10_WarningIffNothingRemoved ==
    (LoopEnded /\ pc \in {"exit", "done"}) =>
        /\ Len(log) = 1
        /\ log[1].level = WARNING <=> removed = <<>>
        /\ log[1].level = INFO <=> removed # <<>>

\* A file was removed, the target is not met, and the log holds the summary.
C10_Witness ==
    /\ pc = "done"
    /\ exit_code = 1
    /\ removed # <<>>
    /\ log[1].level = INFO

\* The walk found no path that the filter accepts.
NoCandidate == Range(file_paths) \cap Matching = {}

\* C11 as stated: a run that returns at the pre-flight test and a run whose
\* scan finds no candidate both remove nothing and both log the warning, and
\* the former exits 0.
C11_SameWarning ==
    /\ (pc = "done" /\ loop_end = "preflight") =>
        /\ removed = <<>>
        /\ exit_code = 0
        /\ log = <<[level |-> WARNING]>>
    /\ (pc = "done" /\ LoopEnded /\ NoCandidate) =>
        /\ removed = <<>>
        /\ log = <<[level |-> WARNING]>>

\* C11 as amended: a run that returns at the pre-flight test removes nothing,
\* logs nothing at warning or info level and exits 0; a run whose scan finds
\* no candidate removes nothing and logs the warning alone.
C11_WarningOnlyAfterScan ==
    /\ (pc = "done" /\ loop_end = "preflight") =>
        /\ removed = <<>>
        /\ disk = Files
        /\ exit_code = 0
        /\ log = <<>>
    /\ (pc \in {"exit", "done"} /\ LoopEnded /\ NoCandidate) =>
        /\ loop_end = "exhausted"
        /\ removed = <<>>
        /\ disk = Files
        /\ log = <<[level |-> WARNING]>>

\* The filter accepts no file of the directory and the run has ended with
\* the warning.
C11_Witness ==
    /\ pc = "done"
    /\ loop_end = "exhausted"
    /\ file_paths # <<>>
    /\ NoCandidate
    /\ log = <<[level |-> WARNING]>>

\* What a tracked run does as a function of the measurement at start, the
\* target and the candidates alone: the files it removes and its exit code.
TrackedRemoved(free, target) ==
    SubSeq(Candidates, 1, ShortestPrefix(target - free))

TrackedExit(free, target) ==
    IF SizeOfFirst(ShortestPrefix(target - free)) >= target - free THEN 0 ELSE 1

\* C12 as stated: in tracked mode the files removed and the exit code of a
\* completed run are determined by the measurement at start, the target and
\* the candidates, whatever the later free-space queries return.
C12_TrackedOutcomeIgnoresQueries ==
    (track_bytes_deleted /\ pc = "done") =>
        /\ removed = TrackedRemoved(disk_usage_free, free_bytes)
        /\ exit_code = TrackedExit(disk_usage_free, free_bytes)

\* C12 as amended: the pre-flight test is a live query in tracked mode too;
\* once it has failed, the files removed and the exit code of a completed run
\* are determined by the measurement at start, the target and the candidates,
\* whatever the later queries return; when it passes, the run removes nothing
\* and exits 0.
C12_TrackedOutcomeAfterPreflight ==
    (track_bytes_deleted /\ pc = "done") =>
        IF preflight_query[1] >= free_bytes
        THEN removed = <<>> /\ exit_code = 0
        ELSE /\ removed = TrackedRemoved(disk_usage_free, free_bytes)
             /\ exit_code = TrackedExit(disk_usage_free, free_bytes)

\* A tracked run removed a file and exits 0 on its counters while the latest
\* live query, made for the summary, reported less than the target and less
\* than the measurement at start.
C12_Witness ==
    /\ track_bytes_deleted
    /\ pc = "done"
    /\ removed # <<>>
    /\ exit_code = 0
    /\ last_query[1] < free_bytes
    /\ last_query[1] < disk_usage_free

\* The candidates that have not been removed.
Remaining == { c \in Range(stat_paths) : c.file \notin Range(removed) }

\* C13: at every point of a run the removed files are a prefix of the
\* candidates in oldest-first order, no removed file is newer than a candidate
\* that remains, the remaining candidates are on disk, and once the loop's
\* test has passed the candidate it was about to consider remains.
C13_RemovedIsOldestPrefix ==
    /\ removed = SubSeq(Candidates, 1, Len(removed))
    /\ \A f \in Range(removed) : \A c \in Remaining : ScanMtime(f) <= c.st_mtime
    /\ \A c \in Remaining : c.file \in disk
    /\ loop_end = "break" =>
        /\ Len(removed) = loop_pos - 1
        /\ stat_paths[loop_pos] \in Remaining

\* The loop's test passed after one removal: a strictly newer candidate
\* remains on disk.
C13_Witness ==
    /\ loop_end = "break"
    /\ removed # <<>>
    /\ \E c \in Remaining : ScanMtime(removed[Len(removed)]) < c.st_mtime

\* The run state agrees with the removals made so far.
CountersConsistent ==
    /\ space_freed = SizeOf(removed)
    /\ removed_files_counter = Len(removed)
    /\ last_mtime = <<>> <=> removed_files_counter = 0
    /\ removed # <<>> => last_mtime = <<ScanMtime(removed[Len(removed)])>>
    /\ ~(fault # <<>> /\ fault[1].op = "assert")

\* C14: in every state the bytes freed are the sum of the scan-time sizes of
\* the removed files, the counter is their number, last_mtime is None exactly
\* when the counter is zero and otherwise the mtime of the latest removal, the
\* assertion before the summary has not failed; and no step decreases the
\* bytes freed or the counter.
C14_RunStateConsistent ==
    /\ []CountersConsistent
    /\ [][/\ space_freed' >= space_freed
          /\ removed_files_counter' >= removed_files_counter]_vars

\* Two files of different mtimes and nonzero sizes were removed and the
\* summary was logged.
C14_Witness ==
    /\ pc = "done"
    /\ Len(removed) = 2
    /\ ScanMtime(removed[1]) < ScanMtime(removed[2])
    /\ ScanSize(removed[1]) > 0 /\ ScanSize(removed[2]) > 0
    /\ log[1].level = INFO

\* The start measurement met the target but the pre-flight query did not.
SatisfiedAtStartOnly ==
    /\ track_bytes_deleted
    /\ preflight_query # <<>>
    /\ preflight_query[1] < free_bytes
    /\ space_to_free <= 0

\* C17: a tracked run whose start measurement meets the target (deficit <= 0)
\* while the pre-flight live query reports less than the target never removes
\* a file; if no stat fails it ends with the warning alone and exit code 0.
C17_TrackedSatisfiedAtStartRemovesNothing ==
    SatisfiedAtStartOnly =>
        /\ removed = <<>>
        /\ disk = Files
        /\ pc # "remove"
        /\ pc \in {"exit", "done"} => log = <<[level |-> WARNING]>>
        /\ pc = "done" => exit_code = 0
        /\ pc = "crashed" => fault[1].op = "stat"

\* Such a run has ended with exit code 0: candidates exist, all are on disk,
\* and the latest live query reported less than the target.
C17_Witness ==
    /\ SatisfiedAtStartOnly
    /\ pc = "done"
    /\ exit_code = 0
    /\ stat_paths # <<>>
    /\ last_query[1] < free_bytes
    /\ log = <<[level |-> WARNING]>>

Terminated == pc \in {"done", "crashed"}

NoDuplicates(s) == \A i, j \in 1..Len(s) : s[i] = s[j] => i = j

\* The loop has passed over loop_pos - 1 candidates of the one scan, and the
\* removed files are among them, each once.
OneScanOnePass ==
    /\ NoDuplicates(Candidates)
    /\ NoDuplicates(removed)
    /\ Range(removed) \subseteq Range(Candidates)
    /\ Range(Candidates) \subseteq Range(file_paths)
    /\ Len(removed) <= loop_pos - 1
    /\ loop_pos <= Len(stat_paths) + 1
    /\ NewFile \notin Range(removed)
    /\ NewFile \notin Range(file_paths)

\* C15: every run terminates; the directory is walked once, the loop never
\* goes back to a candidate, each candidate is removed at most once, and a
\* file created after the walk is never removed.
C15_TerminatesAfterOnePass ==
    /\ <>Terminated
    /\ []OneScanOnePass
    /\ [][/\ loop_pos' >= loop_pos
          /\ file_paths # <<>> => file_paths' = file_paths
          /\ NewFile \in disk => NewFile \in disk']_vars

\* A file that the filter accepts appeared after the walk; the run removed
\* every candidate, missed the target and left the new file on disk.
C15_Witness ==
    /\ pc = "done"
    /\ loop_end = "exhausted"
    /\ exit_code = 1
    /\ removed # <<>>
    /\ NewFile \in disk
    /\ Accepts(delete_re, PathOf(NewFile))

\* The --free-bytes texts of SizeArgs that are no <number>[<unit>] with a
\* unit of the table, written out.
Rejected ==
    { <<>>, <<"B">>, <<"-", "1">>, <<"1", "X">>, <<"1", " ", "k", "b">>,
      <<"1", ".", "2", ".", "3">>, <<".">>, <<"1", "B", "2">> }

\* C16: a malformed or unknown-unit --free-bytes ends the run at argument
\* parsing with a nonzero exit status: no free-space query, no walk, no stat
\* and no removal has been made or is made later.
C16_BadSizeIsFatalAtStartup ==
    size_arg \in Rejected =>
        /\ pc \in {"parse_args", "crashed"}
        /\ pc = "crashed" => exit_code \notin {-1, 0}
        /\ last_query = <<>> /\ preflight_query = <<>>
        /\ disk_usage_free = 0 /\ space_to_free = 0
        /\ file_paths = <<>> /\ stat_paths = <<>>
        /\ removed = <<>> /\ disk = Files
        /\ log = <<>>

\* A size with a unit that the table lacks has ended the run.
C16_Witness ==
    /\ size_arg = <<"1", "X">>
    /\ pc = "crashed"
    /\ exit_code = 2

====
